---- MODULE Spec2Model ----
(***************************************************************************)
(* Model of the LLVM Heat Printer: the heat CFG printer                    *)
(* (src/src/HeatCFGPrinter.cpp) and the heat call-graph printer            *)
(* (src/src/HeatCallPrinter.cpp, HeatUtils.h).                             *)
(*                                                                         *)
(* The colour index and the percentage label are computed by the code in   *)
(* IEEE-754 double precision.  Doubles are modelled bit-exactly: a         *)
(* positive double is a record [bits |-> 53 bits, most significant first,  *)
(* exp |-> E] of value bits * 2^E; zero is a separate value.               *)
(***************************************************************************)
EXTENDS Integers, Sequences, FiniteSets, TLC

(***************************************************************************)
(* Bounds of the model.                                                    *)
(***************************************************************************)
MaxFreqVal == 12      \* largest block frequency drawn for a function body
MaxSuccFreq == 4      \* largest frequency drawn for a successor block
MaxSucc == 3          \* largest number of successors of a terminator
MaxEdges == 3         \* largest number of call sites of a function
MaxBlocks == 2        \* largest number of basic blocks of a function
MaxBlockFreq == 2     \* largest block frequency drawn for a module

(***************************************************************************)
(* IEEE-754 double arithmetic on small operands.                           *)
(***************************************************************************)
MantBits == 53

Pow2(n) == IF n <= 0 THEN 1 ELSE 2 ^ n

\* Sequences of bits (most significant first) are built from limbs of
\* LimbBits bits, so that every recursion below is a few levels deep.
LimbBits == 9
LimbBase == 512

\* Value of a short bit sequence, most significant bit first.
RECURSIVE BitsToInt(_)
BitsToInt(bs) ==
  IF Len(bs) = 0 THEN 0
  ELSE 2 * BitsToInt(SubSeq(bs, 1, Len(bs) - 1)) + bs[Len(bs)]

\* Limbs of a natural number, most significant first (0 -> <<>>).
RECURSIVE IntToLimbs(_)
IntToLimbs(n) ==
  IF n = 0 THEN <<>> ELSE Append(IntToLimbs(n \div LimbBase), n % LimbBase)

LimbsToBits(ls) ==
  [j \in 1..(LimbBits * Len(ls)) |->
     (ls[((j - 1) \div LimbBits) + 1]
        \div Pow2(LimbBits - 1 - ((j - 1) % LimbBits))) % 2]

\* The limbs of a bit sequence, padded with zero bits on the left.
BitsToLimbs(bs) ==
  LET n == Len(bs)
      k == (n + LimbBits - 1) \div LimbBits
      pad == LimbBits * k - n
      bit(j) == IF j <= pad THEN 0 ELSE bs[j - pad]
  IN [i \in 1..k |->
        BitsToInt([t \in 1..LimbBits |-> bit(LimbBits * (i - 1) + t)])]

\* A bit sequence without its leading zero bits.
StripZeros(bs) ==
  IF \A i \in 1..Len(bs) : bs[i] = 0 THEN <<>>
  ELSE LET f == CHOOSE i \in 1..Len(bs) :
                  bs[i] = 1 /\ \A j \in 1..(i - 1) : bs[j] = 0
       IN SubSeq(bs, f, Len(bs))

\* The first n limbs of the fraction r/m (0 <= r < m).
RECURSIVE FracLimbs(_, _, _)
FracLimbs(r, m, n) ==
  IF n = 0 THEN <<>>
  ELSE <<(r * LimbBase) \div m>> \o FracLimbs((r * LimbBase) % m, m, n - 1)

\* The remainder left after the first n limbs of r/m.
RECURSIVE FracRem(_, _, _)
FracRem(r, m, n) ==
  IF n = 0 THEN r ELSE FracRem((r * LimbBase) % m, m, n - 1)

\* bs + 1 on a bit sequence; the result is one bit longer on overflow.
IncBits(bs) ==
  IF \A i \in 1..Len(bs) : bs[i] = 1
  THEN <<1>> \o [i \in 1..Len(bs) |-> 0]
  ELSE LET p == CHOOSE i \in 1..Len(bs) :
                  bs[i] = 0 /\ \A j \in (i + 1)..Len(bs) : bs[j] = 1
       IN [i \in 1..Len(bs) |->
             IF i < p THEN bs[i] ELSE IF i = p THEN 1 ELSE 0]

AnyOne(bs) == \E i \in 1..Len(bs) : bs[i] = 1

\* Round an exact positive value bs * 2^e (sticky: a non-zero part below
\* the last bit of bs) to 53 significant bits, to nearest, ties to even.
RoundToDouble(bs, e, sticky) ==
  IF Len(bs) <= MantBits
  THEN [bits |-> bs \o [i \in 1..(MantBits - Len(bs)) |-> 0],
        exp |-> e - (MantBits - Len(bs))]
  ELSE LET keep == SubSeq(bs, 1, MantBits)
           drop == SubSeq(bs, MantBits + 1, Len(bs))
           d == Len(drop)
           guard == drop[1]
           low == AnyOne(SubSeq(drop, 2, d)) \/ sticky
           up == guard = 1 /\ (low \/ keep[MantBits] = 1)
           inc == IncBits(keep)
       IN IF ~up THEN [bits |-> keep, exp |-> e + d]
          ELSE IF Len(inc) = MantBits THEN [bits |-> inc, exp |-> e + d]
          ELSE [bits |-> SubSeq(inc, 1, MantBits), exp |-> e + d + 1]

FZero == [bits |-> <<>>, exp |-> 0]

\* Number of leading zero binary digits of the fraction v/m (0 < v < m).
RECURSIVE LeadZeros(_, _)
LeadZeros(v, m) == IF 2 * v >= m THEN 0 ELSE 1 + LeadZeros(2 * v, m)

\* double(v) / double(m) for v >= 0, m > 0 (both exactly representable):
\* the integer part and 6 * LimbBits = MantBits + 1 bits from the first
\* significant bit of the fraction, then one rounding.
FDiv(v, m) ==
  IF v = 0 THEN FZero
  ELSE IF v >= m
  THEN RoundToDouble(StripZeros(LimbsToBits(IntToLimbs(v \div m)))
                       \o LimbsToBits(FracLimbs(v % m, m, 6)),
                     0 - (MantBits + 1), FracRem(v % m, m, 6) # 0)
  ELSE LET z == LeadZeros(v, m)
           r == v * Pow2(z)
       IN RoundToDouble(LimbsToBits(FracLimbs(r, m, 6)),
                        0 - (z + MantBits + 1), FracRem(r, m, 6) # 0)

\* ls * c on a limb sequence, least significant limb first with a carry.
RECURSIVE MulLimbs(_, _, _)
MulLimbs(ls, c, carry) ==
  IF Len(ls) = 0 THEN IntToLimbs(carry)
  ELSE MulLimbs(SubSeq(ls, 1, Len(ls) - 1), c,
                (ls[Len(ls)] * c + carry) \div LimbBase)
         \o <<(ls[Len(ls)] * c + carry) % LimbBase>>

\* x * double(c) for a small positive integer constant c: the exact product,
\* then one rounding.
FMulConst(x, c) ==
  IF x = FZero THEN FZero
  ELSE RoundToDouble(StripZeros(LimbsToBits(MulLimbs(BitsToLimbs(x.bits), c, 0))),
                     x.exp, FALSE)

\* Integer part of a double below 2^31 (the conversion to an integer type).
FTrunc(x) ==
  IF x = FZero THEN 0
  ELSE IF MantBits + x.exp <= 0 THEN 0
  ELSE BitsToInt(SubSeq(x.bits, 1, MantBits + x.exp))

\* round(x) of <cmath>: to nearest, halfway cases away from zero.
FRound(x) ==
  IF x = FZero THEN 0
  ELSE IF MantBits + x.exp < 0 THEN 0
  ELSE FTrunc(x) + x.bits[MantBits + x.exp + 1]

(***************************************************************************)
(* State.                                                                  *)
(***************************************************************************)
VARIABLES
  \* one node-attribute query: the node's frequency, the maximum bound into
  \* the heat model, and the attributes answered by each heat model
  freqVal, graphMaxFreq, cfgAttrs, cgAttrs,
  \* the edge-label queries on one terminator: the options, the frequency of
  \* each successor block, the MD_prof metadata of the terminator, and the
  \* label answered for each successor index
  NoEdgeWeight, UseRawEdgeWeight, succFreq, WeightsNode, edgeLabels,
  \* a run of one pass over a module: the pass, the module, the position in
  \* the pass, and the output file of each function (CFG pass) or of the
  \* module (call-graph pass)
  pass, M, pc, files,
  \* the CFG pass: its option, and the locals of
  \* writeHeatCFGToDotFile(Module &): the loop position and maxFreq
  HeatCFGPerFunction, fIdx, maxFreq,
  \* the files of one function rendered under each of the two scopes
  scopeRenders,
  \* the call-graph pass: its options, the call graphs in memory (the host's
  \* and the one local to runOnModule), the HeatCallGraphInfo object, the
  \* frequency queries made so far, the last answer given to WriteGraph and the
  \* number of its queries answered
  UseCallCounter, EstimateEdgeWeight, FullCallGraph,
  graphs, heatCFGInfo, freqQueries, cgAnswer, answered

colourVars == <<freqVal, graphMaxFreq, cfgAttrs, cgAttrs>>
edgeVars == <<NoEdgeWeight, UseRawEdgeWeight, succFreq, WeightsNode,
              edgeLabels>>
runVars == <<pass, M, pc, files>>
cfgVars == <<HeatCFGPerFunction, fIdx, maxFreq, scopeRenders>>
cgOptions == <<UseCallCounter, EstimateEdgeWeight, FullCallGraph>>
cgVars == <<cgOptions, graphs, heatCFGInfo, freqQueries, cgAnswer, answered>>

vars == <<colourVars, edgeVars, runVars, cfgVars, cgVars>>

NoAttrs == [colorId |-> -1, color |-> -1, edgeColor |-> -1, divisor |-> -1]

(***************************************************************************)
(* Node colours.                                                           *)
(***************************************************************************)
heatSize == 100

\* heatPalette[i] is named by its index i; a read past the end of the array
\* is no palette entry.
OutOfPalette == heatSize
heatPalette(i) == IF i \in 0..(heatSize - 1) THEN i ELSE OutOfPalette

\* Outcomes of converting a NaN or an infinite double to unsigned (undefined
\* behaviour): zero, a value in the warm half, a value past the palette.
UndefinedUnsigned == {0, heatSize \div 2, heatSize}

\* The conversion scaled by heatSize instead of heatSize - 1.
CFG_colorIds_scaledBySize(v, m) ==
  IF m = 0 THEN UndefinedUnsigned
  ELSE {FTrunc(FMulConst(FDiv(v, m), heatSize))}

\* unsigned((double(freqVal)/Graph->getMaxFreq())*(heatSize-1)): the values
\* the conversion can produce.  The division is by maxFreq whatever its value.
CFG_colorIds(v, m) ==
  IF m = 0 THEN UndefinedUnsigned
  ELSE {FTrunc(FMulConst(FDiv(v, m), heatSize - 1))}

\* DOTGraphTraits<HeatCFGInfo *>::getNodeAttributes for a node of frequency
\* v under maximum m, the conversion having produced id.
CFG_getNodeAttributes(v, m, id) ==
  [colorId |-> id,
   color |-> heatPalette(id),
   edgeColor |-> IF id < heatSize \div 2 THEN heatPalette(0)
                 ELSE heatPalette(heatSize - 1),
   divisor |-> m]

\* getHeatColor(freq, maxFreq) of HeatUtils: the palette index.
getHeatColor(v, m) ==
  IF m = 0 THEN 0
  ELSE IF (v * (heatSize - 1)) \div m > heatSize - 1 THEN heatSize - 1
  ELSE (v * (heatSize - 1)) \div m

\* getHeatColor(percent) of HeatUtils at the two fractions the call-graph
\* model passes: 0 (coldest entry) and 1 (warmest entry).
getHeatColorOfFraction(one) == IF one THEN heatSize - 1 ELSE 0

\* DOTGraphTraits<HeatCallGraphInfo *>::getNodeAttributes for a defined
\* function of frequency v under maximum m.
CG_getNodeAttributes(v, m) ==
  [colorId |-> getHeatColor(v, m),
   color |-> heatPalette(getHeatColor(v, m)),
   edgeColor |-> IF v < m \div 2 THEN getHeatColorOfFraction(FALSE)
                 ELSE getHeatColorOfFraction(TRUE),
   divisor |-> -1]

(***************************************************************************)
(* CFG edge labels.                                                        *)
(***************************************************************************)
NoLabel == [kind |-> "none"]
NotQueried == [kind |-> "notQueried"]

\* MD_prof metadata of a terminator: absent, or a node whose operand 0 is a
\* name and whose further operands are weights; an operand that is no
\* ConstantInt is NotConstInt.
NoMD == [name |-> "absent", ops |-> <<>>]
NotConstInt == -1
SomeWeight == 2000

\* Outcomes of converting a NaN double to int (undefined behaviour): zero,
\* the "integer indefinite" value INT_MIN, an ordinary percentage.
UndefinedInt == {0, (0 - 2147483647) - 1, 5000}

\* ss << val for val = h / 100.0 under the default precision of 6
\* significant digits: the whole part and the decimals without trailing
\* zeros; values of more than 6 significant digits print in another form
\* (whole = OtherForm).
OtherForm == -1
FormatHundredths(h) ==
  IF h \notin 0..99999 THEN [whole |-> OtherForm, decimals |-> <<>>]
  ELSE [whole |-> h \div 100,
        decimals |-> IF h % 100 = 0 THEN <<>>
                     ELSE IF h % 10 = 0 THEN <<(h % 100) \div 10>>
                     ELSE <<(h % 100) \div 10, h % 10>>]

\* The value, in hundredths, that a printed label reads as.
LabelHundredths(text) ==
  text.whole * 100
    + (IF Len(text.decimals) = 0 THEN 0
       ELSE IF Len(text.decimals) = 1 THEN 10 * text.decimals[1]
       ELSE 10 * text.decimals[1] + text.decimals[2])

\* The loop stopping one successor short.
RECURSIVE EdgeTotal_skipLast(_)
EdgeTotal_skipLast(sf) ==
  IF Len(sf) <= 1 THEN 0
  ELSE EdgeTotal_skipLast(SubSeq(sf, 1, Len(sf) - 1)) + sf[Len(sf) - 1]

\* total += Graph->getFreq(TI->getSuccessor(i)) over all successors.
RECURSIVE EdgeTotal(_)
EdgeTotal(sf) ==
  IF Len(sf) = 0 THEN 0 ELSE EdgeTotal(SubSeq(sf, 1, Len(sf) - 1)) + sf[Len(sf)]

\* The conversion without round().
PercentHundredths_truncated(f, total) ==
  IF total = 0 THEN UndefinedInt
  ELSE {FTrunc(FMulConst(FDiv(f, total), 10000))}

\* int(round((double(freq)/double(total))*10000)): the values it can take.
PercentHundredths(f, total) ==
  IF total = 0 THEN UndefinedInt
  ELSE {FRound(FMulConst(FDiv(f, total), 10000))}

\* The percentage branch of getEdgeAttributes for successor i (1-based).
PercentLabels(sf, i) ==
  IF i - 1 >= Len(sf) THEN {NoLabel}
  ELSE {[kind |-> "%", hundredths |-> h, text |-> FormatHundredths(h),
         divisor |-> EdgeTotal(sf)] :
          h \in PercentHundredths(sf[i], EdgeTotal(sf))}

\* The raw-weight branch without the test of the metadata's kind.
RawLabel_anyKind(md, i) ==
  IF md = NoMD THEN NoLabel
  ELSE IF i >= Len(md.ops) + 1 THEN NoLabel
  ELSE IF md.ops[i] = NotConstInt THEN NoLabel
  ELSE [kind |-> "W:", weight |-> md.ops[i]]

\* The raw-weight branch of getEdgeAttributes for successor i (1-based):
\* operand OpNo = successor index + 1 of the metadata node.
RawLabel(md, i) ==
  IF md = NoMD THEN NoLabel
  ELSE IF md.name # "branch_weights" THEN NoLabel
  ELSE IF i >= Len(md.ops) + 1 THEN NoLabel
  ELSE IF md.ops[i] = NotConstInt THEN NoLabel
  ELSE [kind |-> "W:", weight |-> md.ops[i]]

\* DOTGraphTraits<HeatCFGInfo *>::getEdgeAttributes: the labels it can
\* answer for the edge to successor i of a terminator.
CFG_getEdgeAttributes(noWeight, rawWeight, sf, md, i) ==
  IF noWeight THEN {NoLabel}
  ELSE IF Len(sf) = 1 THEN {NoLabel}
  ELSE IF rawWeight THEN {RawLabel(md, i)}
  ELSE PercentLabels(sf, i)

(***************************************************************************)
(* The module a pass runs on.                                              *)
(***************************************************************************)
SeqsUpTo(S, lo, hi) == UNION {[1..n -> S] : n \in lo..hi}

\* The functions of the module, in module order.
FunctionNames == <<"f1", "f2">>
Functions == {FunctionNames[i] : i \in 1..Len(FunctionNames)}

\* A function without entry-count metadata has entry = NoCount.
NoCount == -1

\* A function is [decl, entry, blocks, calls]: decl is isDeclaration();
\* entry is the entry count; blocks[b] is what the block frequency analysis
\* holds for block b, the profile count when the function has an entry
\* count and the integer block frequency otherwise; calls lists the call
\* instructions in order, each with its block and its callee (a function, or
\* Indirect for a call through a pointer).
Indirect == "indirect"
Declaration == [decl |-> TRUE, entry |-> NoCount, blocks |-> <<>>,
                calls |-> <<>>]

\* Optional<uint64_t> BFI->getBlockProfileCount(BB).
getBlockProfileCount(F, b) ==
  IF F.entry = NoCount THEN NoCount ELSE F.blocks[b]

\* BFI->getBlockFreq(BB).getFrequency(), read when there is no profile count.
getBlockFreq(F, b) == F.blocks[b]

\* HeatCFGInfo::getFreq, and the same lines inlined in getNodeAttributes and
\* in getMaxFreq(Function &).
getFreq(F, b) ==
  IF getBlockProfileCount(F, b) # NoCount THEN getBlockProfileCount(F, b)
  ELSE getBlockFreq(F, b)

\* The scan keeping the frequency of the first block only.
getMaxFreqF_firstBlock(F) == IF Len(F.blocks) = 0 THEN 0 ELSE getFreq(F, 1)

\* static getMaxFreq(Function &F, LookupBFI) of the CFG printer.
RECURSIVE MaxFreqUpTo(_, _)
MaxFreqUpTo(F, n) ==
  IF n = 0 THEN 0
  ELSE IF getFreq(F, n) >= MaxFreqUpTo(F, n - 1) THEN getFreq(F, n)
  ELSE MaxFreqUpTo(F, n - 1)

getMaxFreqF(F) == MaxFreqUpTo(F, Len(F.blocks))

\* static getMaxFreq(Module &M, LookupBFI) of the CFG printer.
RECURSIVE ModuleMaxUpTo(_, _)
ModuleMaxUpTo(m, n) ==
  IF n = 0 THEN 0
  ELSE IF m[FunctionNames[n]].decl THEN ModuleMaxUpTo(m, n - 1)
  ELSE IF getMaxFreqF(m[FunctionNames[n]]) >= ModuleMaxUpTo(m, n - 1)
       THEN getMaxFreqF(m[FunctionNames[n]])
  ELSE ModuleMaxUpTo(m, n - 1)

getMaxFreqM(m) == ModuleMaxUpTo(m, Len(FunctionNames))

\* The functions a module of the CFG pass is drawn from: an entry block of
\* a function without profile has a frequency of at least 1.
CFGFunctionBodies ==
  {[decl |-> FALSE, entry |-> e, blocks |-> bs, calls |-> <<>>] :
     e \in {NoCount} \cup 0..MaxBlockFreq,
     bs \in SeqsUpTo(0..MaxBlockFreq, 1, MaxBlocks)}

CFGFunctions ==
  {Declaration} \cup
  {F \in CFGFunctionBodies :
     IF F.entry = NoCount THEN F.blocks[1] >= 1 ELSE F.blocks[1] = F.entry}

\* The modules of the CFG pass: f1 has up to MaxBlocks blocks, f2 at most
\* one.
CFGModules ==
  {m \in [Functions -> CFGFunctions] : Len(m["f2"].blocks) <= 1}

\* The output files: one per function (CFG pass), one per module (call-graph
\* pass).
ModuleFile == "module"
FileNames == Functions \cup {ModuleFile}
NoFile == [state |-> "none"]
OpenError == [state |-> "error opening file for writing!"]

NoRenders == [perFunction \in BOOLEAN |-> NoFile]

CFGIdle ==
  /\ HeatCFGPerFunction = FALSE
  /\ fIdx = 0
  /\ maxFreq = 0
  /\ scopeRenders = NoRenders

(***************************************************************************)
(* Call graphs.  A graph gives every node its call records in order (the   *)
(* CalledFunctions vector), each record named by the node it calls.        *)
(***************************************************************************)
ExtCaller == "external caller"     \* CallGraph::getExternalCallingNode()
ExtCallee == "external callee"     \* CallGraph::getCallsExternalNode()
CGNodes == {ExtCaller, ExtCallee} \cup Functions

\* The nodes of the graph's function map, which begin()/end() iterate: the
\* external calling node (key null) and one node per function.
FunctionMapNodes == {ExtCaller} \cup Functions

\* CallGraphNode::getFunction(); the two external nodes have none.
NullFunction == "null"
NodeFunction(n) == IF n \in Functions THEN n ELSE NullFunction

\* CallGraph CG(M): the external calling node calls every function, a
\* declaration calls the external callee, a defined function has one record
\* per call instruction (to the external callee for an indirect call).
CallGraphOf(m) ==
  [n \in CGNodes |->
     IF n = ExtCaller THEN FunctionNames
     ELSE IF n = ExtCallee THEN <<>>
     ELSE IF m[n].decl THEN <<ExtCallee>>
     ELSE [i \in 1..Len(m[n].calls) |->
             IF m[n].calls[i].callee = Indirect THEN ExtCallee
             ELSE m[n].calls[i].callee]]

NoGraph == [n \in CGNodes |-> <<"no graph">>]

\* The removal taking the first record, not the last, into the freed place.
removeCallEdge_moveFirst(edges, i) ==
  [j \in 1..(Len(edges) - 1) |-> IF j = i THEN edges[1] ELSE edges[j]]

\* Node->removeCallEdge(CI): the last record is moved into the place of the
\* removed one.
removeCallEdge(edges, i) ==
  [j \in 1..(Len(edges) - 1) |-> IF j = i THEN edges[Len(edges)] ELSE edges[j]]

\* One pass of the for loop over the records of a node: the position of the
\* first record whose target function is already in visited, 0 if none.
FirstParallelEdge(edges) ==
  IF \E i \in 1..Len(edges) : \E j \in 1..(i - 1) :
       NodeFunction(edges[j]) = NodeFunction(edges[i])
  THEN CHOOSE i \in 1..Len(edges) :
         /\ \E j \in 1..(i - 1) : NodeFunction(edges[j]) = NodeFunction(edges[i])
         /\ \A k \in 1..(i - 1) : \A j \in 1..(k - 1) :
              NodeFunction(edges[j]) # NodeFunction(edges[k])
  ELSE 0

\* The while loop run once only.
CollapseNode_onePass(edges) ==
  IF FirstParallelEdge(edges) = 0 THEN edges
  ELSE removeCallEdge(edges, FirstParallelEdge(edges))

\* while (foundParallelEdge) { ... } on one node.
RECURSIVE CollapseNode(_)
CollapseNode(edges) ==
  IF FirstParallelEdge(edges) = 0 THEN edges
  ELSE CollapseNode(removeCallEdge(edges, FirstParallelEdge(edges)))

\* The number of times the while loop of one node finds a parallel edge and
\* restarts, which is the number of calls of removeCallEdge on that node.
RECURSIVE CollapseRemovals(_)
CollapseRemovals(edges) ==
  IF FirstParallelEdge(edges) = 0 THEN 0
  ELSE 1 + CollapseRemovals(removeCallEdge(edges, FirstParallelEdge(edges)))

\* HeatCallGraphInfo::removeParallelEdges on the graph CG points to.
removeParallelEdges(g) ==
  [n \in CGNodes |-> IF n \in FunctionMapNodes THEN CollapseNode(g[n]) ELSE g[n]]

(***************************************************************************)
(* Frequencies of the call-graph pass (HeatUtils).                         *)
(***************************************************************************)
\* hasProfiling(M): some function carries entry-count metadata.
hasProfiling(m) == \E f \in Functions : m[f].entry # NoCount

\* getBlockFreq(BB, BFI, useHeuristic): the profile count when there is one,
\* else the block-frequency estimate.
blockFrequency(F, b, useHeuristic) ==
  IF getBlockProfileCount(F, b) # NoCount THEN getBlockProfileCount(F, b)
  ELSE getBlockFreq(F, b)

\* getMaxFreq(F, BFI, useHeuristic): the maximum over the blocks of F.
maxFrequency(F, useHeuristic) ==
  IF Len(F.blocks) = 0 THEN 0
  ELSE CHOOSE x \in {blockFrequency(F, b, useHeuristic) : b \in 1..Len(F.blocks)} :
         \A b \in 1..Len(F.blocks) : blockFrequency(F, b, useHeuristic) <= x

\* getNumOfCalls(caller, callee, LookupBFI, useHeuristic): the sum, over
\* the call sites of caller that call callee, of the enclosing block's
\* frequency.
RECURSIVE NumOfCallsUpTo(_, _, _, _)
NumOfCallsUpTo(F, callee, useHeuristic, n) ==
  IF n = 0 THEN 0
  ELSE NumOfCallsUpTo(F, callee, useHeuristic, n - 1)
         + (IF F.calls[n].callee = callee
            THEN blockFrequency(F, F.calls[n].blk, useHeuristic) ELSE 0)

getNumOfCalls(F, callee, useHeuristic) ==
  NumOfCallsUpTo(F, callee, useHeuristic, Len(F.calls))

\* The value of the parameter useHeuristic when a caller leaves it out
\* (HeatUtils.h: bool useHeuristic=true).
DefaultUseHeuristic == TRUE

(***************************************************************************)
(* The call-graph pass: HeatCallGraphDOTPrinterPass::runOnModule.          *)
(***************************************************************************)
NoInfo == [CG |-> "none", freq |-> <<>>, maxFreq |-> 0]
NoAnswer == [query |-> "none"]

\* The host's graph handed over instead.
RenderGraph_host == "host"

\* The graph whose address runOnModule hands to HeatCallGraphInfo: its own
\* local CallGraph CG(M).
RenderGraph == "local"

\* The loop of the constructor up to function number n: the recorded
\* frequencies and the running maximum.
RECURSIVE ConstructUpTo(_, _, _, _)
ConstructUpTo(m, callCounter, useHeuristic, n) ==
  IF n = 0 THEN [freq |-> [f \in {} |-> 0], maxFreq |-> 0]
  ELSE LET prev == ConstructUpTo(m, callCounter, useHeuristic, n - 1)
           name == FunctionNames[n]
           F == m[name]
           localMaxFreq ==
             IF callCounter
             THEN (IF F.entry # NoCount THEN F.entry ELSE 0)
             ELSE maxFrequency(F, useHeuristic)
       IN IF F.decl
          THEN [freq |-> [f \in DOMAIN prev.freq \cup {name} |->
                            IF f = name THEN 0 ELSE prev.freq[f]],
                maxFreq |-> prev.maxFreq]
          ELSE [freq |-> [f \in DOMAIN prev.freq \cup {name} |->
                            IF f = name THEN localMaxFreq ELSE prev.freq[f]],
                maxFreq |-> IF localMaxFreq >= prev.maxFreq THEN localMaxFreq
                            ELSE prev.maxFreq]

\* The frequency queries the constructor makes, with the flag it passes.
ConstructorQueries(m, callCounter) ==
  IF callCounter \/ \A f \in Functions : m[f].decl THEN {}
  ELSE {[query |-> "getMaxFreq", useHeuristic |-> ~hasProfiling(m)]}

\* The constructor leaving the last function of the module unrecorded.
HeatCallGraphInfo_lastUnrecorded(m, ptr, callCounter) ==
  LET c == ConstructUpTo(m, callCounter, ~hasProfiling(m), Len(FunctionNames))
      d == ConstructUpTo(m, callCounter, ~hasProfiling(m),
                         Len(FunctionNames) - 1)
  IN [CG |-> ptr, freq |-> d.freq, maxFreq |-> c.maxFreq]

\* The constructor taking the maximum block frequency in both modes.
HeatCallGraphInfo_noCallCounter(m, ptr, callCounter) ==
  LET c == ConstructUpTo(m, FALSE, ~hasProfiling(m), Len(FunctionNames))
  IN [CG |-> ptr, freq |-> c.freq, maxFreq |-> c.maxFreq]

\* HeatCallGraphInfo(M, CG, LookupBFI) without the collapse.
HeatCallGraphInfo(m, ptr, callCounter) ==
  LET c == ConstructUpTo(m, callCounter, ~hasProfiling(m), Len(FunctionNames))
  IN [CG |-> ptr, freq |-> c.freq, maxFreq |-> c.maxFreq]

\* HeatCallGraphInfo::getFreq: freq[F] of a std::map, which records a
\* missing key with the value 0.
CG_getFreq(info, f) == IF f \in DOMAIN info.freq THEN info.freq[f] ELSE 0

CG_getFreqMap(info, f) ==
  [g \in DOMAIN info.freq \cup {f} |-> CG_getFreq(info, g)]

\* The call sites a module of the call-graph pass is drawn from.
CallSites == {[blk |-> 1, callee |-> c] : c \in Functions \cup {Indirect}}

\* Modules whose call sites vary: every function is a declaration or has a
\* single block of frequency 1 and up to MaxEdges call sites.
CallFunctions ==
  {Declaration} \cup
  {[decl |-> FALSE, entry |-> NoCount, blocks |-> <<1>>, calls |-> c] :
     c \in SeqsUpTo(CallSites, 0, MaxEdges)}

\* Modules whose call sites vary: f1 has up to MaxEdges call sites, f2 at
\* most one.
CallModules ==
  {m \in [Functions -> CallFunctions] : Len(m["f2"].calls) <= 1}

\* Modules whose frequencies vary: f1 calls f2 once or not at all, f2 has
\* a single block and no call.
FreqModules ==
  {m \in [Functions -> CFGFunctions \cup
            {[F EXCEPT !.calls = <<[blk |-> 1, callee |-> "f2"]>>] :
               F \in CFGFunctions \ {Declaration}}] :
     m["f2"].calls = <<>> /\ Len(m["f2"].blocks) <= 1}

\* The module of the specification's example: F1 calls F2 at three call
\* sites of its one block, of frequency 10.
ExampleModule ==
  [f \in Functions |->
     IF f = "f1"
     THEN [decl |-> FALSE, entry |-> NoCount, blocks |-> <<10>>,
           calls |-> [i \in 1..3 |-> [blk |-> 1, callee |-> "f2"]]]
     ELSE [decl |-> FALSE, entry |-> NoCount, blocks |-> <<1>>,
           calls |-> <<>>]]

CGIdle ==
  /\ UseCallCounter = FALSE
  /\ EstimateEdgeWeight = FALSE
  /\ FullCallGraph = FALSE
  /\ graphs = [g \in {"host", "local"} |-> NoGraph]
  /\ heatCFGInfo = NoInfo
  /\ freqQueries = {}
  /\ cgAnswer = NoAnswer
  /\ answered = 0

CGInit ==
  /\ pass = "dot-heat-callgraph"
  /\ \/ /\ M \in CallModules
        /\ UseCallCounter = FALSE
        /\ FullCallGraph \in BOOLEAN
     \/ /\ M \in FreqModules \cup {ExampleModule}
        /\ UseCallCounter \in BOOLEAN
        /\ FullCallGraph = FALSE
  /\ EstimateEdgeWeight \in BOOLEAN
  /\ pc = "start"
  /\ files = [f \in FileNames |-> NoFile]
  /\ graphs = [g \in {"host", "local"} |->
                 IF g = "host" THEN CallGraphOf(M) ELSE NoGraph]
  /\ heatCFGInfo = NoInfo
  /\ freqQueries = {}
  /\ cgAnswer = NoAnswer
  /\ answered = 0
  /\ CFGIdle

\* runOnModule up to and including the construction of heatCFGInfo: the
\* file is opened, the local graph built, the frequencies recorded and the
\* parallel edges removed from the graph the object points to.
CG_Construct ==
  /\ pass = "dot-heat-callgraph" /\ pc = "start"
  /\ \E EC \in BOOLEAN :
       files' = [files EXCEPT ![ModuleFile] =
                   IF EC THEN OpenError ELSE [state |-> "open"]]
  /\ LET built == [graphs EXCEPT !["local"] = CallGraphOf(M)]
     IN graphs' = [built EXCEPT ![RenderGraph] =
                     removeParallelEdges(built[RenderGraph])]
  /\ heatCFGInfo' = HeatCallGraphInfo(M, RenderGraph, UseCallCounter)
  /\ freqQueries' = freqQueries \cup ConstructorQueries(M, UseCallCounter)
  /\ pc' = "constructed"
  /\ UNCHANGED <<pass, M, cgOptions, cgAnswer, answered, colourVars, edgeVars,
                 cfgVars>>

\* GraphTraits<HeatCallGraphInfo *>::getEntryNode.
getEntryNode(info) == ExtCaller

\* No node hidden, whatever the mode.
isNodeHidden_never(full, n) == FALSE

\* DOTGraphTraits<HeatCallGraphInfo *>::isNodeHidden.
isNodeHidden(full, n) ==
  IF full THEN FALSE
  ELSE IF NodeFunction(n) # NullFunction THEN FALSE
  ELSE TRUE

\* The nodes in the order WriteGraph visits them (nodes_begin .. nodes_end).
WriteOrder == <<ExtCaller>> \o FunctionNames

\* The queries WriteGraph makes for node n of graph g: nothing for a hidden
\* node, else the node's attributes and then the attributes of each of its
\* edges to a node that is not hidden.
NodeQueries(g, full, n) ==
  IF isNodeHidden(full, n) THEN <<>>
  ELSE <<[kind |-> "node", node |-> n, i |-> 0]>> \o
       SelectSeq([i \in 1..Len(g[n]) |-> [kind |-> "edge", node |-> n, i |-> i]],
                 LAMBDA q : ~isNodeHidden(full, g[n][q.i]))

RECURSIVE QueriesUpTo(_, _, _)
QueriesUpTo(g, full, k) ==
  IF k = 0 THEN <<>>
  ELSE QueriesUpTo(g, full, k - 1) \o NodeQueries(g, full, WriteOrder[k])

\* The queries of WriteGraph(File, &heatCFGInfo), in order.
RenderQueries == QueriesUpTo(graphs[heatCFGInfo.CG], FullCallGraph, Len(WriteOrder))

\* WriteGraph is running and has a query left.
Writing ==
  /\ pass = "dot-heat-callgraph" /\ pc = "constructed"
  /\ files[ModuleFile].state = "open"
  /\ answered < Len(RenderQueries)

\* WriteGraph asks for the attributes of a node.
CG_QueryNode ==
  /\ Writing
  /\ RenderQueries[answered + 1].kind = "node"
  /\ LET n == RenderQueries[answered + 1].node
     IN IF NodeFunction(n) = NullFunction \/ M[NodeFunction(n)].decl
        THEN /\ cgAnswer' = [query |-> "getNodeAttributes", node |-> n,
                             attrs |-> NoAttrs]
             /\ UNCHANGED heatCFGInfo
        ELSE /\ cgAnswer' =
                  [query |-> "getNodeAttributes", node |-> n,
                   attrs |-> CG_getNodeAttributes(CG_getFreq(heatCFGInfo, n),
                                                  heatCFGInfo.maxFreq)]
             /\ heatCFGInfo' =
                  [heatCFGInfo EXCEPT !.freq = CG_getFreqMap(heatCFGInfo, n)]
  /\ answered' = answered + 1
  /\ UNCHANGED <<runVars, cgOptions, graphs, freqQueries, colourVars,
                 edgeVars, cfgVars>>

\* The early returns without the test of the option.
CG_hasEdgeLabel_always(estimate, m, n, succ) ==
  /\ NodeFunction(n) # NullFunction
  /\ ~m[NodeFunction(n)].decl
  /\ NodeFunction(succ) # NullFunction

\* The early returns of getEdgeAttributes: TRUE when none is taken and the
\* edge from node n to node succ gets a label.
CG_hasEdgeLabel(estimate, m, n, succ) ==
  /\ estimate
  /\ NodeFunction(n) # NullFunction
  /\ ~m[NodeFunction(n)].decl
  /\ NodeFunction(succ) # NullFunction

\* WriteGraph asks for the attributes of an edge.
CG_QueryEdge ==
  /\ Writing
  /\ RenderQueries[answered + 1].kind = "edge"
  /\ LET n == RenderQueries[answered + 1].node
         succ == graphs[heatCFGInfo.CG][n][RenderQueries[answered + 1].i]
         labelled == CG_hasEdgeLabel(EstimateEdgeWeight, M, n, succ)
     IN IF ~labelled
        THEN /\ cgAnswer' = [query |-> "getEdgeAttributes", node |-> n,
                             succ |-> succ, label |-> NoLabel]
             /\ UNCHANGED freqQueries
        ELSE /\ cgAnswer' =
                  [query |-> "getEdgeAttributes", node |-> n, succ |-> succ,
                   label |-> [kind |-> "count",
                              counter |-> getNumOfCalls(M[n], succ,
                                            DefaultUseHeuristic)]]
             /\ freqQueries' = freqQueries \cup
                  {[query |-> "getNumOfCalls",
                    useHeuristic |-> DefaultUseHeuristic]}
  /\ answered' = answered + 1
  /\ UNCHANGED <<runVars, cgOptions, graphs, heatCFGInfo, colourVars,
                 edgeVars, cfgVars>>

\* The end of runOnModule: WriteGraph has returned or the error is reported,
\* and the locals CG and heatCFGInfo go out of scope.
CG_Return ==
  /\ pass = "dot-heat-callgraph" /\ pc = "constructed"
  /\ files[ModuleFile] = OpenError \/ answered = Len(RenderQueries)
  /\ files' = [files EXCEPT ![ModuleFile] =
                 IF files[ModuleFile] = OpenError THEN OpenError
                 ELSE [state |-> "written"]]
  /\ graphs' = [graphs EXCEPT !["local"] = NoGraph]
  /\ heatCFGInfo' = NoInfo
  /\ cgAnswer' = NoAnswer
  /\ pc' = "done"
  /\ UNCHANGED <<pass, M, cgOptions, freqQueries, answered, colourVars,
                 edgeVars, cfgVars>>

CGNext == CG_Construct \/ CG_QueryNode \/ CG_QueryEdge \/ CG_Return

(***************************************************************************)
(* The CFG pass: writeHeatCFGToDotFile(Module &) and, per function,        *)
(* writeHeatCFGToDotFile(Function &).                                      *)
(***************************************************************************)
\* The colour indices WriteGraph can get for the blocks of F under maximum
\* mf: one function from blocks to indices per outcome.
NodeColorIds(F, mf) ==
  IF mf = 0 THEN [1..Len(F.blocks) -> UndefinedUnsigned]
  ELSE {[b \in 1..Len(F.blocks) |->
           CHOOSE id \in CFG_colorIds(getFreq(F, b), mf) : TRUE]}

\* WriteGraph(File, &heatCFGInfo) for HeatCFGInfo(F, BFI, mf): the node
\* attributes written, the conversions having produced ids.
WriteCFG(F, mf, ids) ==
  [state |-> "written", maxFreq |-> mf,
   nodes |-> [b \in 1..Len(F.blocks) |->
                CFG_getNodeAttributes(getFreq(F, b), mf, ids[b])]]

RunIdle ==
  /\ pass = "none"
  /\ M = [f \in Functions |-> Declaration]
  /\ pc = "done"
  /\ files = [f \in FileNames |-> NoFile]
  /\ CFGIdle
  /\ CGIdle

CFGInit ==
  /\ pass = "dot-heat-cfg"
  /\ M \in CFGModules
  /\ pc = "start"
  /\ files = [f \in FileNames |-> NoFile]
  /\ HeatCFGPerFunction \in BOOLEAN
  /\ fIdx = 0
  /\ maxFreq = 0
  /\ scopeRenders = NoRenders
  /\ CGIdle

\* uint64_t maxFreq = 0; if (!HeatCFGPerFunction) maxFreq = getMaxFreq(M,..)
CFG_Begin ==
  /\ pass = "dot-heat-cfg" /\ pc = "start"
  /\ maxFreq' = IF ~HeatCFGPerFunction THEN getMaxFreqM(M) ELSE 0
  /\ fIdx' = 1
  /\ pc' = "loop"
  /\ UNCHANGED <<pass, M, files, HeatCFGPerFunction, scopeRenders, colourVars,
                 edgeVars, cgVars>>

\* One iteration of for (Function &F : M) over a declaration.
CFG_SkipDeclaration ==
  /\ pass = "dot-heat-cfg" /\ pc = "loop" /\ fIdx <= Len(FunctionNames)
  /\ M[FunctionNames[fIdx]].decl
  /\ fIdx' = fIdx + 1
  /\ UNCHANGED <<pass, M, pc, files, HeatCFGPerFunction, maxFreq,
                 scopeRenders, colourVars, edgeVars, cgVars>>

\* The per-function maximum computed for the first rendered function only
\* and carried over to the later ones.
RenderMax_carried(F, carried) ==
  IF HeatCFGPerFunction /\ carried = 0 THEN getMaxFreqF(F) ELSE carried

\* if (HeatCFGPerFunction) maxFreq = getMaxFreq(F,LookupBFI): the maximum
\* handed to the render of F, carried being the value of maxFreq so far.
RenderMax(F, carried) ==
  IF HeatCFGPerFunction THEN getMaxFreqF(F) ELSE carried

\* The iteration leaving the loop when the file cannot be opened.
CFG_RenderFunction_abortOnError ==
  /\ pass = "dot-heat-cfg" /\ pc = "loop" /\ fIdx <= Len(FunctionNames)
  /\ ~M[FunctionNames[fIdx]].decl
  /\ LET name == FunctionNames[fIdx]
         F == M[name]
         mf == RenderMax(F, maxFreq)
     IN /\ maxFreq' = mf
        /\ \E EC \in BOOLEAN :
             IF EC THEN /\ files' = [files EXCEPT ![name] = OpenError]
                        /\ pc' = "done"
                        /\ fIdx' = Len(FunctionNames) + 1
             ELSE /\ \E ids \in NodeColorIds(F, mf) :
                       files' = [files EXCEPT ![name] = WriteCFG(F, mf, ids)]
                  /\ pc' = pc
                  /\ fIdx' = fIdx + 1
  /\ UNCHANGED <<pass, M, HeatCFGPerFunction, scopeRenders, colourVars,
                 edgeVars, cgVars>>

\* One iteration over a defined function: the maximum, the file, the graph.
CFG_RenderFunction ==
  /\ pass = "dot-heat-cfg" /\ pc = "loop" /\ fIdx <= Len(FunctionNames)
  /\ ~M[FunctionNames[fIdx]].decl
  /\ LET name == FunctionNames[fIdx]
         F == M[name]
         mf == RenderMax(F, maxFreq)
     IN /\ maxFreq' = mf
        /\ \E EC \in BOOLEAN :
             IF EC THEN files' = [files EXCEPT ![name] = OpenError]
             ELSE \E ids \in NodeColorIds(F, mf) :
                    files' = [files EXCEPT ![name] = WriteCFG(F, mf, ids)]
  /\ fIdx' = fIdx + 1
  /\ UNCHANGED <<pass, M, pc, HeatCFGPerFunction, scopeRenders, colourVars,
                 edgeVars, cgVars>>

CFG_End ==
  /\ pass = "dot-heat-cfg" /\ pc = "loop" /\ fIdx > Len(FunctionNames)
  /\ pc' = "done"
  /\ UNCHANGED <<pass, M, files, HeatCFGPerFunction, fIdx, maxFreq,
                 scopeRenders, colourVars, edgeVars, cgVars>>

CFGNext == CFG_Begin \/ CFG_SkipDeclaration \/ CFG_RenderFunction \/ CFG_End

(***************************************************************************)
(* Edge-label queries on their own: a terminator with 1..MaxSucc           *)
(* successors.  In percentage mode the successor frequencies vary, in the  *)
(* other modes the metadata varies.                                        *)
(***************************************************************************)
\* The worked example of the specification (A branching to B(75), C(25))
\* and a terminator whose first percentage is an exact tie in the third
\* decimal (57 of 800 is 7.125 percent).
ExampleTerminators == {<<75, 25>>, <<57, 743>>}

Metadata ==
  {NoMD} \cup {[name |-> n, ops |-> w] :
                 n \in {"branch_weights", "function_entry_count"},
                 w \in SeqsUpTo({NotConstInt, SomeWeight}, 0, MaxSucc)}

ColourIdle ==
  /\ freqVal = 0
  /\ graphMaxFreq = 0
  /\ cfgAttrs = NoAttrs
  /\ cgAttrs = NoAttrs

EdgeIdle ==
  /\ NoEdgeWeight = FALSE
  /\ UseRawEdgeWeight = FALSE
  /\ succFreq = <<>>
  /\ WeightsNode = NoMD
  /\ edgeLabels = <<>>

EdgeInit ==
  /\ NoEdgeWeight \in BOOLEAN
  /\ UseRawEdgeWeight \in BOOLEAN
  /\ IF ~NoEdgeWeight /\ ~UseRawEdgeWeight
     THEN /\ succFreq \in SeqsUpTo(0..MaxSuccFreq, 1, MaxSucc)
                            \cup ExampleTerminators
          /\ WeightsNode = NoMD
     ELSE /\ succFreq \in SeqsUpTo({1}, 1, MaxSucc)
          /\ WeightsNode \in Metadata
  /\ edgeLabels = [i \in 1..Len(succFreq) |-> NotQueried]
  /\ ColourIdle
  /\ RunIdle

QueryEdge ==
  /\ \E i \in 1..Len(succFreq) :
       \E l \in CFG_getEdgeAttributes(NoEdgeWeight, UseRawEdgeWeight,
                                      succFreq, WeightsNode, i) :
         edgeLabels' = [edgeLabels EXCEPT ![i] = l]
  /\ UNCHANGED <<NoEdgeWeight, UseRawEdgeWeight, succFreq, WeightsNode,
                 colourVars, runVars, cfgVars, cgVars>>

EdgeNext == QueryEdge

SpecEdge == EdgeInit /\ [][EdgeNext]_vars

(***************************************************************************)
(* The two scopes side by side: a module with exactly one defined function *)
(* is rendered once with -heat-cfg-per-function and once without.          *)
(***************************************************************************)
DefinedFunctions(m) == {f \in Functions : ~m[f].decl}

\* writeHeatCFGToDotFile(Module &) on a module whose only defined function
\* is f, with HeatCFGPerFunction = perFunction: the files f can get.
RenderOnlyFunction(m, f, perFunction) ==
  LET mf == IF perFunction THEN getMaxFreqF(m[f]) ELSE getMaxFreqM(m)
  IN {OpenError} \cup {WriteCFG(m[f], mf, ids) : ids \in NodeColorIds(m[f], mf)}

ScopesInit ==
  /\ pass = "dot-heat-cfg, both scopes"
  /\ M \in {m \in CFGModules : Cardinality(DefinedFunctions(m)) = 1}
  /\ pc = "start"
  /\ files = [f \in FileNames |-> NoFile]
  /\ CFGIdle
  /\ CGIdle
  /\ ColourIdle
  /\ EdgeIdle

\* The module rendered with -heat-cfg-per-function.
RenderPerFunction ==
  /\ pass = "dot-heat-cfg, both scopes"
  /\ scopeRenders[TRUE] = NoFile
  /\ \E f \in DefinedFunctions(M) :
       \E out \in RenderOnlyFunction(M, f, TRUE) :
         scopeRenders' = [scopeRenders EXCEPT ![TRUE] = out]
  /\ UNCHANGED <<runVars, HeatCFGPerFunction, fIdx, maxFreq, colourVars,
                 edgeVars, cgVars>>

\* The module rendered without -heat-cfg-per-function.
RenderWholeProgram ==
  /\ pass = "dot-heat-cfg, both scopes"
  /\ scopeRenders[FALSE] = NoFile
  /\ \E f \in DefinedFunctions(M) :
       \E out \in RenderOnlyFunction(M, f, FALSE) :
         scopeRenders' = [scopeRenders EXCEPT ![FALSE] = out]
  /\ UNCHANGED <<runVars, HeatCFGPerFunction, fIdx, maxFreq, colourVars,
                 edgeVars, cgVars>>

ScopesNext == RenderPerFunction \/ RenderWholeProgram

SpecScopes == ScopesInit /\ [][ScopesNext]_vars

Init == (CFGInit \/ CGInit) /\ ColourIdle /\ EdgeIdle

Next == CFGNext \/ CGNext

Spec == Init /\ [][Next]_vars

(***************************************************************************)
(* Colour queries on their own: every (frequency, maximum) pair a render   *)
(* can present, frequency <= maximum.                                      *)
(***************************************************************************)
ColourInit ==
  /\ graphMaxFreq \in 0..MaxFreqVal
  /\ freqVal \in 0..graphMaxFreq
  /\ cfgAttrs = NoAttrs
  /\ cgAttrs = NoAttrs
  /\ EdgeIdle
  /\ RunIdle

QueryCFGNode ==
  /\ \E id \in CFG_colorIds(freqVal, graphMaxFreq) :
       cfgAttrs' = CFG_getNodeAttributes(freqVal, graphMaxFreq, id)
  /\ UNCHANGED <<freqVal, graphMaxFreq, cgAttrs, edgeVars, runVars, cfgVars, cgVars>>

QueryCGNode ==
  /\ cgAttrs' = CG_getNodeAttributes(freqVal, graphMaxFreq)
  /\ UNCHANGED <<freqVal, graphMaxFreq, cfgAttrs, edgeVars, runVars, cfgVars, cgVars>>

ColourNext == QueryCGNode \/ QueryCFGNode

SpecColour == ColourInit /\ [][ColourNext]_vars

(***************************************************************************)
(* Properties of the two passes (Spec).                                    *)
(***************************************************************************)
RECURSIVE SumOf(_)
SumOf(q) == IF Len(q) = 0 THEN 0 ELSE q[1] + SumOf(Tail(q))

\* Records i < j of a node's call records with the same target function.
ParallelEdges(edges) ==
  \E i \in 1..Len(edges) : \E j \in (i + 1)..Len(edges) :
    NodeFunction(edges[i]) = NodeFunction(edges[j])

\* C1: once HeatCallGraphInfo is constructed, and at every later query, no
\* node of the graph it renders has two outgoing edges with the same target
\* function, the targets without function counting as one target.
C1_NoParallelEdges ==
  heatCFGInfo # NoInfo =>
    \A n \in CGNodes : ~ParallelEdges(graphs[heatCFGInfo.CG][n])

\* f1 calls through a pointer, calls f2, calls through a pointer again; the
\* rendered node keeps one edge to the external callee and one to f2, and
\* an edge of f1 has been queried.
C1_Witness ==
  /\ heatCFGInfo # NoInfo
  /\ CallGraphOf(M)["f1"] = <<ExtCallee, "f2", ExtCallee>>
  /\ graphs[heatCFGInfo.CG]["f1"] = <<ExtCallee, "f2">>
  /\ cgAnswer.query = "getEdgeAttributes" /\ cgAnswer.node = "f1"

\* C2: the host's call graph has the same edges during and after a
\* call-graph render as before it, whether or not the file could be opened.
C2_HostGraphUnchanged ==
  pass = "dot-heat-callgraph" => graphs["host"] = CallGraphOf(M)

\* A render of a module where f1 calls f2 three times has returned with its
\* file written, and the host's node of f1 still has its three edges.
C2_Witness ==
  /\ pass = "dot-heat-callgraph" /\ pc = "done"
  /\ files[ModuleFile].state = "written"
  /\ graphs["host"]["f1"] = <<"f2", "f2", "f2">>

\* The largest element of a set of frequencies, 0 for the empty set.
ScopeMax(S) == IF S = {} THEN 0 ELSE CHOOSE x \in S : \A y \in S : y <= x

\* The frequencies of the blocks of the function named f.
BlockFreqs(f) == {getFreq(M[f], b) : b \in 1..Len(M[f].blocks)}

\* The frequencies in the scope of the CFG render of f.
CFGScope(f) ==
  IF HeatCFGPerFunction THEN BlockFreqs(f)
  ELSE UNION {BlockFreqs(g) : g \in {h \in Functions : ~M[h].decl}}

\* The maximum bound into every heat model is at least the frequency of
\* every node of the model and is the largest frequency of the scope.
MaxFrequencyIsScopeMax ==
  /\ \A f \in Functions : files[f].state = "written" =>
       /\ \A x \in BlockFreqs(f) : x <= files[f].maxFreq
       /\ files[f].maxFreq = ScopeMax(CFGScope(f))
  /\ heatCFGInfo # NoInfo =>
       /\ \A f \in DOMAIN heatCFGInfo.freq :
            heatCFGInfo.freq[f] <= heatCFGInfo.maxFreq
       /\ heatCFGInfo.maxFreq =
            ScopeMax({heatCFGInfo.freq[f] : f \in {h \in Functions : ~M[h].decl}})

\* C5: in every render the maximum bound into a heat model is at least the
\* frequency of every node it colours and equals the largest frequency of
\* the scope, and no palette index computed exceeds 99.
C5_MaxFrequencyBoundsIndex ==
  /\ MaxFrequencyIsScopeMax
  /\ \A f \in Functions : files[f].state = "written" =>
       \A b \in 1..Len(M[f].blocks) : files[f].nodes[b].colorId <= heatSize - 1
  /\ (cgAnswer.query = "getNodeAttributes" /\ cgAnswer.attrs # NoAttrs) =>
       cgAnswer.attrs.colorId <= heatSize - 1

\* The frequencies of all blocks of all defined functions.
ProgramFreqs == UNION {BlockFreqs(g) : g \in {h \in Functions : ~M[h].decl}}

\* An iteration of the CFG loop over a defined function.
RendersFunction ==
  /\ pass = "dot-heat-cfg" /\ pc = "loop" /\ fIdx <= Len(FunctionNames)
  /\ ~M[FunctionNames[fIdx]].decl
  /\ fIdx' = fIdx + 1

\* C11: in the CFG loop, with per-function scope the maximum used for a
\* function is the largest block frequency of that function, whatever was
\* used for the function before it; with whole-program scope the maximum
\* is the largest block frequency of the program from before the first
\* function on and never changes.
C11_MaxRecomputedPerScope ==
  [][/\ RendersFunction =>
          /\ HeatCFGPerFunction =>
               maxFreq' = ScopeMax(BlockFreqs(FunctionNames[fIdx]))
          /\ ~HeatCFGPerFunction => maxFreq' = maxFreq
          /\ files'[FunctionNames[fIdx]].state = "written" =>
               files'[FunctionNames[fIdx]].maxFreq = maxFreq'
     /\ (pass = "dot-heat-cfg" /\ pc = "loop" /\ ~HeatCFGPerFunction) =>
          maxFreq = ScopeMax(ProgramFreqs) /\ maxFreq' = maxFreq]_vars

\* Per-function scope: f1 was rendered under maximum 2 and then f2 under
\* maximum 1.
C11_Witness ==
  /\ pass = "dot-heat-cfg" /\ HeatCFGPerFunction /\ pc = "done"
  /\ files["f1"].state = "written" /\ files["f1"].maxFreq = 2
  /\ files["f2"].state = "written" /\ files["f2"].maxFreq = 1

\* C12: with the per-function heat map every rendered function has at
\* least one block coloured with the maximum heat, palette index 99.
C12_EveryFunctionHasHottestBlock ==
  (pass = "dot-heat-cfg" /\ HeatCFGPerFunction) =>
    \A f \in Functions : files[f].state = "written" =>
      \E b \in 1..Len(M[f].blocks) : files[f].nodes[b].colorId = heatSize - 1

\* Both renders of the only defined function have written their file.
BothScopesWritten ==
  \A perFunction \in BOOLEAN : scopeRenders[perFunction].state = "written"

\* C13: a program with exactly one defined function rendered with
\* per-function scope and with whole-program scope gets the same maximum
\* and the same fill and outline colour for every block.
C13_ScopesAgreeOnSingleFunction ==
  BothScopesWritten =>
    /\ scopeRenders[TRUE].maxFreq = scopeRenders[FALSE].maxFreq
    /\ \A b \in DOMAIN scopeRenders[TRUE].nodes :
         /\ scopeRenders[TRUE].nodes[b].color = scopeRenders[FALSE].nodes[b].color
         /\ scopeRenders[TRUE].nodes[b].edgeColor
              = scopeRenders[FALSE].nodes[b].edgeColor

\* The two renders use the same maximum, and the same colours when that
\* maximum is positive.
ScopesAgreeOnPositiveMax ==
  BothScopesWritten =>
    /\ scopeRenders[TRUE].maxFreq = scopeRenders[FALSE].maxFreq
    /\ scopeRenders[TRUE].maxFreq > 0 => scopeRenders[TRUE] = scopeRenders[FALSE]

\* C14: in the CFG loop a function whose file cannot be opened gets the
\* error report and no output, every other defined function gets its
\* output whatever happened to the functions before it, and a declaration
\* gets neither; the loop ends only after the last function.
C14_OpenFailureSkipsOneFunction ==
  pass = "dot-heat-cfg" =>
    /\ pc = "done" => fIdx > Len(FunctionNames)
    /\ \A i \in 1..Len(FunctionNames) :
         LET f == FunctionNames[i]
             visited == pc = "done" \/ (pc = "loop" /\ i < fIdx)
         IN /\ M[f].decl => files[f] = NoFile
            /\ ~visited => files[f] = NoFile
            /\ (visited /\ ~M[f].decl) =>
                 \/ files[f] = OpenError
                 \/ /\ files[f].state = "written"
                    /\ DOMAIN files[f].nodes = 1..Len(M[f].blocks)

\* The file of f1 could not be opened and f2 was rendered after it.
C14_Witness ==
  /\ pass = "dot-heat-cfg" /\ pc = "done"
  /\ files["f1"] = OpenError
  /\ files["f2"].state = "written"

\* C15: a call-graph node without function is hidden unless the full call
\* graph is asked for, a node with a function is never hidden, no hidden
\* node is written, and the entry node is the external caller in both
\* modes.
C15_HiddenNodesAndEntry ==
  pass = "dot-heat-callgraph" =>
    /\ \A n \in {ExtCaller, ExtCallee} :
         isNodeHidden(FullCallGraph, n) = ~FullCallGraph
    /\ \A n \in Functions : ~isNodeHidden(FullCallGraph, n)
    /\ getEntryNode(heatCFGInfo) = ExtCaller
    /\ cgAnswer.query = "getNodeAttributes" =>
         (FullCallGraph \/ cgAnswer.node \in Functions)
    /\ cgAnswer.query = "getEdgeAttributes" =>
         (FullCallGraph \/ {cgAnswer.node, cgAnswer.succ} \subseteq Functions)

\* The full call graph is asked for and the external caller, the entry
\* node, has been written as a node.
C15_Witness ==
  /\ pass = "dot-heat-callgraph" /\ FullCallGraph
  /\ cgAnswer.query = "getNodeAttributes"
  /\ cgAnswer.node = getEntryNode(heatCFGInfo)

\* The edge F1 -> F2 of the example has been labelled.
ExampleEdgeLabelled ==
  /\ pass = "dot-heat-callgraph" /\ M = ExampleModule
  /\ cgAnswer.query = "getEdgeAttributes"
  /\ cgAnswer.node = "f1" /\ cgAnswer.succ = "f2"
  /\ cgAnswer.label # NoLabel

CallSiteFreqs(f, g) ==
  SumOf([i \in 1..Len(M[f].calls) |->
           IF M[f].calls[i].callee = g THEN M[f].blocks[M[f].calls[i].blk]
           ELSE 0])

RecordedFrequency(f) ==
  IF M[f].decl THEN 0
  ELSE IF UseCallCounter THEN (IF M[f].entry = NoCount THEN 0 ELSE M[f].entry)
  ELSE ScopeMax(BlockFreqs(f))

C20_QueriesLeaveModelUnchanged ==
  [][(heatCFGInfo # NoInfo /\ heatCFGInfo' # NoInfo) =>
       /\ heatCFGInfo' = heatCFGInfo
       /\ graphs' = graphs]_vars

\* The attributes of the defined function f2 and then of an edge have been
\* asked for, and the model still records exactly the functions of the
\* module.
C20_Witness ==
  /\ heatCFGInfo # NoInfo /\ answered >= 3
  /\ ~M["f1"].decl /\ ~M["f2"].decl
  /\ cgAnswer.query = "getEdgeAttributes" /\ cgAnswer.node = "f2"
  /\ DOMAIN heatCFGInfo.freq = Functions

\* The target functions of a node's call records.
TargetFunctions(edges) == {NodeFunction(edges[i]) : i \in 1..Len(edges)}

\* C21: the collapse ends on every node: a restart of the scan takes
\* exactly one record off the node, and a node with e records and d
\* distinct target functions is left with d records after e - d removals.
C21_CollapseTakesExactlyTheDuplicates ==
  heatCFGInfo # NoInfo =>
    \A n \in FunctionMapNodes :
      LET before == CallGraphOf(M)[n]
          after == graphs[heatCFGInfo.CG][n]
          d == Cardinality(TargetFunctions(before))
      IN /\ CollapseRemovals(before) = Len(before) - d
         /\ Len(after) = d
         /\ FirstParallelEdge(before) # 0 =>
              Len(removeCallEdge(before, FirstParallelEdge(before)))
                = Len(before) - 1

\* f1 calls f2, calls through a pointer and calls f2 again: three records,
\* two distinct targets, two records left.
C21_Witness ==
  /\ heatCFGInfo # NoInfo
  /\ CallGraphOf(M)["f1"] = <<"f2", ExtCallee, "f2">>
  /\ Len(graphs[heatCFGInfo.CG]["f1"]) = 2

\* C22: the collapse keeps, for every node, the set of target functions of
\* its records, and a node without parallel edges keeps its records as
\* they are whatever is removed from other nodes.
C22_CollapseKeepsTargets ==
  heatCFGInfo # NoInfo =>
    \A n \in CGNodes :
      /\ TargetFunctions(graphs[heatCFGInfo.CG][n])
           = TargetFunctions(CallGraphOf(M)[n])
      /\ ~ParallelEdges(CallGraphOf(M)[n]) =>
           graphs[heatCFGInfo.CG][n] = CallGraphOf(M)[n]

\* f1 calls f2 twice and then through a pointer, f2 calls f1 once: f1
\* keeps both targets and f2 keeps its one record.
C22_Witness ==
  /\ heatCFGInfo # NoInfo
  /\ CallGraphOf(M)["f1"] = <<"f2", "f2", ExtCallee>>
  /\ TargetFunctions(graphs[heatCFGInfo.CG]["f1"]) = {"f2", NullFunction}
  /\ CallGraphOf(M)["f2"] = <<"f1">>
  /\ graphs[heatCFGInfo.CG]["f2"] = <<"f1">>

\* C10: every frequency query of a program takes the heuristic path when
\* the program has no profile and none does when it has one.
C10_UniformProvenance ==
  \A q \in freqQueries :
    q.useHeuristic = ~(\E f \in Functions : M[f].entry # NoCount)

(***************************************************************************)
(* Properties of the node colours (SpecColour).                            *)
(***************************************************************************)
FloorIndex(v, m) == (v * (heatSize - 1)) \div m

\* C3: with a maximum of 0 the colour lookup divides by no zero and gives
\* palette index 0 for every node, as a frequency of 0 does under any
\* maximum.
C3_ZeroMaxGivesIndexZero ==
  /\ (cfgAttrs # NoAttrs /\ graphMaxFreq = 0)
       => (cfgAttrs.divisor # 0 /\ cfgAttrs.colorId = 0)
  /\ (cgAttrs # NoAttrs /\ graphMaxFreq = 0) => cgAttrs.colorId = 0
  /\ (cfgAttrs # NoAttrs /\ freqVal = 0 /\ graphMaxFreq > 0)
       => cfgAttrs.colorId = 0

\* C4 as claimed: for 0 <= v <= m, m > 0, the palette index of a CFG node is
\* exactly floor(v * 99 / m), within [0, 99].
C4_IndexIsExactFloor ==
  (cfgAttrs # NoAttrs /\ graphMaxFreq > 0)
    => /\ cfgAttrs.colorId \in 0..(heatSize - 1)
       /\ cfgAttrs.colorId = FloorIndex(freqVal, graphMaxFreq)

\* C4 as amended: for 0 <= v <= m, m > 0, the palette index of a CFG node is
\* the truncated double-precision product (v / m) * 99: it lies in [0, 99],
\* does not decrease as v grows, is 99 at v = m and 0 at v = 0, and is
\* floor(v * 99 / m), or one less than it when m divides v * 99.
C4_IndexIsDoubleFloor ==
  (cfgAttrs # NoAttrs /\ graphMaxFreq > 0)
    => /\ cfgAttrs.colorId \in 0..(heatSize - 1)
       /\ \/ cfgAttrs.colorId = FloorIndex(freqVal, graphMaxFreq)
          \/ /\ cfgAttrs.colorId = FloorIndex(freqVal, graphMaxFreq) - 1
             /\ (freqVal * (heatSize - 1)) % graphMaxFreq = 0
       /\ freqVal = graphMaxFreq => cfgAttrs.colorId = heatSize - 1
       /\ freqVal = 0 => cfgAttrs.colorId = 0
       /\ \A w \in 0..freqVal :
            \A id \in CFG_colorIds(w, graphMaxFreq) : id <= cfgAttrs.colorId

\* A CFG node coloured one below the exact floor: frequency 3 under
\* maximum 11.
C4_Witness ==
  /\ cfgAttrs # NoAttrs
  /\ freqVal = 3 /\ graphMaxFreq = 11
  /\ cfgAttrs.colorId = 26

\* The outline rule of the specification: cold up to half of the maximum.
OutlineRule(v, m) ==
  IF 2 * v <= m THEN heatPalette(0) ELSE heatPalette(heatSize - 1)

\* C6: in both heat models a node whose frequency is at most half of the
\* maximum gets the coldest palette entry as outline colour and every other
\* node the warmest, so the two models agree on every (frequency, maximum).
C6_OutlineColdUpToHalf ==
  /\ cfgAttrs # NoAttrs
       => cfgAttrs.edgeColor = OutlineRule(freqVal, graphMaxFreq)
  /\ cgAttrs # NoAttrs
       => cgAttrs.edgeColor = OutlineRule(freqVal, graphMaxFreq)
  /\ (cfgAttrs # NoAttrs /\ cgAttrs # NoAttrs)
       => cfgAttrs.edgeColor = cgAttrs.edgeColor

(***************************************************************************)
(* Properties of the CFG edge labels (SpecEdge).                           *)
(***************************************************************************)
PercentMode == ~NoEdgeWeight /\ ~UseRawEdgeWeight

Queried(i) == edgeLabels[i] # NotQueried

AllQueried == \A i \in 1..Len(edgeLabels) : Queried(i)

\* f * 10000 / total rounded to the nearest integer, halves upwards.
ExactHundredths(f, total) == (2 * f * 10000 + total) \div (2 * total)

\* f * 10000 / total lies exactly halfway between two integers.
ExactTie(f, total) == (2 * f * 10000) % (2 * total) = total

\* C7: in percentage mode no label is emitted when the successors'
\* frequencies sum to 0 or when the block has exactly one successor, and no
\* label is computed by a division by a zero total.
C7_NoLabelOnZeroTotal ==
  PercentMode =>
    \A i \in 1..Len(edgeLabels) :
      Queried(i) =>
        /\ (SumOf(succFreq) = 0 \/ Len(succFreq) = 1)
             => edgeLabels[i] = NoLabel
        /\ edgeLabels[i].kind = "%" => edgeLabels[i].divisor # 0

\* C8 as claimed: in percentage mode, with at least two successors and a
\* total above 0, the label of every edge reads exactly
\* round(freq * 10000 / total) / 100.
C8_LabelIsExactRound ==
  (PercentMode /\ Len(succFreq) >= 2 /\ SumOf(succFreq) > 0) =>
    \A i \in 1..Len(edgeLabels) :
      Queried(i) =>
        /\ edgeLabels[i].kind = "%"
        /\ LabelHundredths(edgeLabels[i].text)
             = ExactHundredths(succFreq[i], SumOf(succFreq))

\* C8 as amended: the label reads round(freq * 10000 / total) / 100, or one
\* hundredth less when freq * 10000 / total is an exact tie; a successor of
\* frequency 0 is labelled 0; the example A -> B(75), C(25) reads 75 and 25.
C8_LabelIsDoubleRound ==
  (PercentMode /\ Len(succFreq) >= 2 /\ SumOf(succFreq) > 0) =>
    \A i \in 1..Len(edgeLabels) :
      Queried(i) =>
        /\ edgeLabels[i].kind = "%"
        /\ \/ LabelHundredths(edgeLabels[i].text)
                = ExactHundredths(succFreq[i], SumOf(succFreq))
           \/ /\ LabelHundredths(edgeLabels[i].text)
                   = ExactHundredths(succFreq[i], SumOf(succFreq)) - 1
              /\ ExactTie(succFreq[i], SumOf(succFreq))
        /\ succFreq[i] = 0 => LabelHundredths(edgeLabels[i].text) = 0
        /\ succFreq = <<75, 25>>
             => LabelHundredths(edgeLabels[i].text) = succFreq[i] * 100

\* Both edges of the example labelled: 75 and 25 percent.
C8_Witness ==
  /\ PercentMode /\ succFreq = <<75, 25>> /\ AllQueried
  /\ edgeLabels[1].text = [whole |-> 75, decimals |-> <<>>]
  /\ edgeLabels[2].text = [whole |-> 25, decimals |-> <<>>]

\* C9: in percentage mode, with k >= 2 successors and a total above 0, the
\* k labels sum to 100.00 within 0.01 per edge (in hundredths: within k of
\* 10000), also when successors repeat.
C9_LabelsSumToHundred ==
  (PercentMode /\ Len(succFreq) >= 2 /\ SumOf(succFreq) > 0 /\ AllQueried) =>
    LET sum == SumOf([i \in 1..Len(edgeLabels) |->
                        LabelHundredths(edgeLabels[i].text)])
    IN /\ \A i \in 1..Len(edgeLabels) : edgeLabels[i].kind = "%"
       /\ sum - 10000 <= Len(succFreq)
       /\ 10000 - sum <= Len(succFreq)

\* Three equal successors, each labelled 33.33: the labels sum to 99.99.
C9_Witness ==
  /\ PercentMode /\ succFreq = <<1, 1, 1>> /\ AllQueried
  /\ \A i \in 1..3 : edgeLabels[i].text = [whole |-> 33, decimals |-> <<3, 3>>]

\* The terminator has no label to give in raw-weight mode for successor i:
\* no metadata, metadata of another kind, no operand at position i, or a
\* single successor.
NoRawWeight(i) ==
  \/ WeightsNode = NoMD
  \/ WeightsNode.name # "branch_weights"
  \/ i > Len(WeightsNode.ops)
  \/ Len(succFreq) = 1

\* C19 as claimed: with edge labels disabled every label is empty; in
\* raw-weight mode the label is empty without branch-weight metadata, with
\* metadata of another kind, with no operand at position successor index
\* + 1 and with a single successor, and otherwise it is 'W:' followed by
\* the weight stored at that position.
C19_RawLabelIsStoredWeight ==
  \A i \in 1..Len(edgeLabels) : Queried(i) =>
    /\ NoEdgeWeight => edgeLabels[i] = NoLabel
    /\ (~NoEdgeWeight /\ UseRawEdgeWeight) =>
         IF NoRawWeight(i) THEN edgeLabels[i] = NoLabel
         ELSE edgeLabels[i] = [kind |-> "W:", weight |-> WeightsNode.ops[i]]

\* C19 as amended: as claimed, and the label is empty too when the operand
\* at position successor index + 1 is not a constant integer.
C19_RawLabelIsStoredConstant ==
  \A i \in 1..Len(edgeLabels) : Queried(i) =>
    /\ NoEdgeWeight => edgeLabels[i] = NoLabel
    /\ (~NoEdgeWeight /\ UseRawEdgeWeight) =>
         IF NoRawWeight(i) THEN edgeLabels[i] = NoLabel
         ELSE IF WeightsNode.ops[i] = NotConstInt THEN edgeLabels[i] = NoLabel
         ELSE edgeLabels[i] = [kind |-> "W:", weight |-> WeightsNode.ops[i]]

\* Raw-weight mode, two successors, branch weights for the first only: the
\* first edge is labelled W:2000 and the second has no label.
C19_Witness ==
  /\ ~NoEdgeWeight /\ UseRawEdgeWeight /\ Len(succFreq) = 2 /\ AllQueried
  /\ WeightsNode = [name |-> "branch_weights", ops |-> <<SomeWeight>>]
  /\ edgeLabels[1] = [kind |-> "W:", weight |-> SomeWeight]
  /\ edgeLabels[2] = NoLabel

====
